---- MODULE Spec2Model ----
(***************************************************************************)
(* Model of maha7_scalping_app.py: the Williams fractal detector           *)
(* (calculate_fractals), the buy-signal generator (calculate_signals), the *)
(* EMA columns analyze_stock computes, and the walk-forward backtest       *)
(* (calculate_backtest_results).                                           *)
(*                                                                         *)
(* Bars are indexed 0..len-1 as in the source (iloc positions; the index   *)
(* labels are unique, increasing timestamps, so df.index[i] and position i *)
(* name the same bar).  A column is a function on 0..len-1.  Prices are    *)
(* integers (ticks); every derived real (EMA, Stop_Loss, Take_Profit) is   *)
(* an exact rational [n, d] with d > 0, and NaN is the value with d = 0.   *)
(* Binary floating-point rounding is not modelled.                         *)
(***************************************************************************)
EXTENDS Integers, FiniteSets, Sequences, TLC

VARIABLES
    len,          \* len(df)
    df,           \* column name -> column, the columns present in the frame
    ema,          \* span -> column, the columns named f'EMA_{span}'
    bad,          \* cells <<column, bar>> whose conversion raises
    ema_short, ema_medium, ema_long,
    pc,           \* position in the program
    i,            \* index of the running for-loop over bars
    results,      \* calculate_backtest_results: the results dict, or NoneValue
    buy_signals,  \* calculate_backtest_results: the signal rows, in order
    k,            \* position in buy_signals of the signal being processed
    trade,        \* locals of the running iteration of the signal loop
    trades        \* log: for each processed signal, the locals as the iteration ended

vars == <<len, df, ema, bad, ema_short, ema_medium, ema_long, pc, i,
          results, buy_signals, k, trade, trades>>

(* ------------------------------ bounds -------------------------------- *)
MaxBars == 5       \* bars of a series given to calculate_fractals
MaxPrice == 4      \* price levels 0..MaxPrice of such a series
MaxSigBars == 3    \* bars of a series given to calculate_signals
MaxSigPrice == 2   \* levels 0..MaxSigPrice of its Close and EMA columns
MaxBtBars == 3     \* bars of a series given to calculate_backtest_results
MaxBtPrice == 2    \* price levels 1..MaxBtPrice of such a series
MaxPipeBars == 6   \* bars of a series given to the whole pipeline
MaxPipePrice == 2  \* Close levels 0..MaxPipePrice of such a series
MaxSpan == 4       \* EMA spans 2..MaxSpan (smoothing factor 2/(span+1) < 1)

(* ----------------------------- rationals ------------------------------ *)
RECURSIVE Gcd(_, _)
Gcd(a, b) == IF b = 0 THEN a ELSE Gcd(b, a % b)
Abs(x) == IF x < 0 THEN -x ELSE x
\* the rational n/d in lowest terms (d > 0)
Rat(n, d) == LET g == Gcd(Abs(n), d) IN [n |-> n \div g, d |-> d \div g]
NaN == [n |-> 0, d |-> 0]
IsNaN(x) == x.d = 0
Lt(a, b) == a.n * b.d < b.n * a.d
Le(a, b) == a.n * b.d <= b.n * a.d
Eq(a, b) == a.n * b.d = b.n * a.d
Sub(a, b) == Rat(a.n * b.d - b.n * a.d, a.d * b.d)
Add(a, b) == Rat(a.n * b.d + b.n * a.d, a.d * b.d)
Mul(a, b) == Rat(a.n * b.n, a.d * b.d)
\* a / b for b > 0
Div(a, b) == Rat(a.n * b.d, a.d * b.n)

\* safe_float on a number: float(value)
safe_float(value) == Rat(value, 1)

Bars == 0 .. (len - 1)
Columns == DOMAIN df
AddColumn(frame, name, col) ==
    [c \in (DOMAIN frame) \cup {name} |-> IF c = name THEN col ELSE frame[c]]
SetCell(frame, name, bar, v) ==
    [frame EXCEPT ![name] = [frame[name] EXCEPT ![bar] = v]]
NoneValue == [none |-> TRUE]
NoTrade == [s |-> -1]

(* ------------------------- calculate_fractals ------------------------- *)
\* the buy test with the bar after it compared by >= instead of >
IsFractalBuyTie(frame, b) ==
    /\ frame["High"][b - 2] < frame["High"][b]
    /\ frame["High"][b - 1] < frame["High"][b]
    /\ frame["High"][b] >= frame["High"][b + 1]
    /\ frame["High"][b] > frame["High"][b + 2]

\* the buy test of one bar, lines 150-159
IsFractalBuy(frame, b) ==
    LET high_i == safe_float(frame["High"][b])
        high_i_minus_2 == safe_float(frame["High"][b - 2])
        high_i_minus_1 == safe_float(frame["High"][b - 1])
        high_i_plus_1 == safe_float(frame["High"][b + 1])
        high_i_plus_2 == safe_float(frame["High"][b + 2])
    IN  /\ Lt(high_i_minus_2, high_i)
        /\ Lt(high_i_minus_1, high_i)
        /\ Lt(high_i_plus_1, high_i)
        /\ Lt(high_i_plus_2, high_i)

\* the sell test of one bar, lines 164-173
IsFractalSell(frame, b) ==
    LET low_i == safe_float(frame["Low"][b])
        low_i_minus_2 == safe_float(frame["Low"][b - 2])
        low_i_minus_1 == safe_float(frame["Low"][b - 1])
        low_i_plus_1 == safe_float(frame["Low"][b + 1])
        low_i_plus_2 == safe_float(frame["Low"][b + 2])
    IN  /\ Lt(low_i, low_i_minus_2)
        /\ Lt(low_i, low_i_minus_1)
        /\ Lt(low_i, low_i_plus_1)
        /\ Lt(low_i, low_i_plus_2)

\* range(2, len(df) - 2)
FractalRange == 2 .. (len - 3)

\* lines 141-146: the guard, and the two columns initialised to False
FractalsStart ==
    /\ pc = "fractals"
    /\ IF len < 5
       THEN /\ pc' = "ret_fractals"
            /\ UNCHANGED <<df, i>>
       ELSE /\ df' = AddColumn(AddColumn(df, "Fractal_Buy", [b \in Bars |-> FALSE]),
                               "Fractal_Sell", [b \in Bars |-> FALSE])
            /\ i' = 2
            /\ pc' = "fractal_buy"
    /\ UNCHANGED <<len, ema, bad, ema_short, ema_medium, ema_long,
                   results, buy_signals, k, trade, trades>>

\* lines 149-160: one iteration of the buy loop
FractalBuyStep ==
    /\ pc = "fractal_buy"
    /\ IF i \in FractalRange
       THEN /\ df' = IF IsFractalBuy(df, i)
                     THEN SetCell(df, "Fractal_Buy", i, TRUE)
                     ELSE df
            /\ i' = i + 1
            /\ pc' = pc
       ELSE /\ i' = 2
            /\ pc' = "fractal_sell"
            /\ df' = df
    /\ UNCHANGED <<len, ema, bad, ema_short, ema_medium, ema_long,
                   results, buy_signals, k, trade, trades>>

\* lines 163-176: one iteration of the sell loop, then return df
FractalSellStep ==
    /\ pc = "fractal_sell"
    /\ IF i \in FractalRange
       THEN /\ df' = IF IsFractalSell(df, i)
                     THEN SetCell(df, "Fractal_Sell", i, TRUE)
                     ELSE df
            /\ i' = i + 1
            /\ pc' = pc
       ELSE /\ i' = 0
            /\ pc' = "ret_fractals"
            /\ df' = df
    /\ UNCHANGED <<len, ema, bad, ema_short, ema_medium, ema_long,
                   results, buy_signals, k, trade, trades>>

(* ------------------------- calculate_signals -------------------------- *)
Cell(table, key, bar) == <<table, key, bar>>
Raises(cell) == cell \in bad

\* line 230: EMA_medium * 0.99
StopMargin == Rat(99, 100)
\* line 235: risk * 1.5
RiskReward == Rat(3, 2)

\* alignment read at the bar itself instead of the bar before
is_aligned_same_bar(b) ==
    Lt(ema[ema_medium][b], ema[ema_short][b]) /\ Lt(ema[ema_long][b], ema[ema_medium][b])

\* lines 205-209
is_aligned(b) ==
    LET ema_short_val == ema[ema_short][b - 1]
        ema_medium_val == ema[ema_medium][b - 1]
        ema_long_val == ema[ema_long][b - 1]
    IN  Lt(ema_medium_val, ema_short_val) /\ Lt(ema_long_val, ema_medium_val)

\* lines 212-218
price_below_ema(b) == Lt(safe_float(df["Close"][b - 1]), ema[ema_short][b - 1])
price_above_ema(b) == Lt(ema[ema_short][b], safe_float(df["Close"][b]))

\* lines 221-223
fractal_buy(b) ==
    IF b < len /\ "Fractal_Buy" \in Columns THEN df["Fractal_Buy"][b] ELSE FALSE

\* line 226
BuyCondition(b) ==
    is_aligned(b) /\ price_below_ema(b) /\ price_above_ema(b) /\ fractal_buy(b)

\* the stop taken from the bar before the signal
StopLossAtPrevBar(b) == Mul(ema[ema_medium][b - 1], StopMargin)

\* line 230
StopLossAt(b) == Mul(ema[ema_medium][b], StopMargin)
\* lines 233-235
TakeProfitAt(b) ==
    LET entry_price == safe_float(df["Close"][b])
        risk == Sub(entry_price, StopLossAt(b))
    IN  Add(entry_price, Mul(risk, RiskReward))

\* the cells lines 205-223 convert for bar b, before anything is written
CellsReadFirst(b) ==
    {Cell("EMA", ema_short, b - 1), Cell("EMA", ema_medium, b - 1),
     Cell("EMA", ema_long, b - 1), Cell("Close", 0, b - 1), Cell("Close", 0, b),
     Cell("EMA", ema_short, b)}
    \cup (IF "Fractal_Buy" \in Columns THEN {Cell("Fractal_Buy", 0, b)} ELSE {})

\* lines 203-241: the body of the loop for bar b, on frame
SignalBody(frame, b) ==
    IF \E c \in CellsReadFirst(b) : Raises(c)
    THEN frame                                         \* except: continue
    ELSE IF ~BuyCondition(b)
    THEN frame
    ELSE LET marked == SetCell(frame, "Buy_Signal", b, TRUE)
         IN  IF Raises(Cell("EMA", ema_medium, b))
             THEN marked                               \* line 230 raises
             ELSE SetCell(SetCell(marked, "Stop_Loss", b, StopLossAt(b)),
                          "Take_Profit", b, TakeProfitAt(b))

\* lines 192-199: the guard, and the four columns initialised
SignalsStart ==
    /\ pc = "signals"
    /\ IF len <= ema_long
       THEN /\ pc' = "ret_signals"
            /\ UNCHANGED <<df, i>>
       ELSE /\ df' = AddColumn(AddColumn(AddColumn(AddColumn(df,
                        "Buy_Signal", [b \in Bars |-> FALSE]),
                        "Sell_Signal", [b \in Bars |-> FALSE]),
                        "Stop_Loss", [b \in Bars |-> NaN]),
                        "Take_Profit", [b \in Bars |-> NaN])
            /\ i' = 1
            /\ pc' = "signal_loop"
    /\ UNCHANGED <<len, ema, bad, ema_short, ema_medium, ema_long,
                   results, buy_signals, k, trade, trades>>

\* lines 202-243: one iteration of range(1, len(df)), then return df
SignalStep ==
    /\ pc = "signal_loop"
    /\ IF i < len
       THEN /\ df' = SignalBody(df, i)
            /\ i' = i + 1
            /\ pc' = pc
       ELSE /\ df' = df
            /\ i' = 0
            /\ pc' = "ret_signals"
    /\ UNCHANGED <<len, ema, bad, ema_short, ema_medium, ema_long,
                   results, buy_signals, k, trade, trades>>

(* ---------------------------- analyze_stock --------------------------- *)
\* the average with the smoothing factor 2 / (span - 1)
RECURSIVE EWMWrongAlpha(_, _, _)
EWMWrongAlpha(close, span, t) ==
    IF t = 0
    THEN [n |-> close[0], d |-> 1]
    ELSE Add(Mul(Rat(span - 3, span - 1), EWMWrongAlpha(close, span, t - 1)),
             Mul(Rat(2, span - 1), [n |-> close[t], d |-> 1]))

\* Series.ewm(span=span, adjust=False).mean(): y[0] = x[0],
\* y[t] = (1 - a) * y[t-1] + a * x[t] with a = 2 / (span + 1)
RECURSIVE EWM(_, _, _)
EWM(close, span, t) ==
    IF t = 0
    THEN safe_float(close[0])
    ELSE Add(Mul(Rat(span - 1, span + 1), EWM(close, span, t - 1)),
             Mul(Rat(2, span + 1), safe_float(close[t])))

\* lines 281-283: the three EMA columns (one column per distinct span)
AnalyzeStockEMA ==
    /\ pc = "analyze"
    /\ ema' = [s \in {ema_short, ema_medium, ema_long} |->
                  [b \in Bars |-> EWM(df["Close"], s, b)]]
    /\ pc' = "fractals"
    /\ UNCHANGED <<len, df, bad, ema_short, ema_medium, ema_long, i,
                   results, buy_signals, k, trade, trades>>

\* lines 289-292: calculate_fractals has returned, calculate_signals is called
AnalyzeStockSignals ==
    /\ pc = "ret_fractals"
    /\ pc' = "signals"
    /\ UNCHANGED <<len, df, ema, bad, ema_short, ema_medium, ema_long, i,
                   results, buy_signals, k, trade, trades>>

\* analyze_stock has returned data; the caller hands it to calculate_backtest_results
CallBacktest ==
    /\ pc = "ret_signals"
    /\ pc' = "backtest"
    /\ UNCHANGED <<len, df, ema, bad, ema_short, ema_medium, ema_long, i,
                   results, buy_signals, k, trade, trades>>

(* --------------------- calculate_backtest_results --------------------- *)
\* lines 423-432
EmptyResults ==
    [total_signals |-> 0, wins |-> 0, losses |-> 0, win_rate |-> 0,
     avg_profit |-> << >>, avg_loss |-> << >>, profit_factor |-> 0,
     total_return |-> 0]

\* line 435: the bars with Buy_Signal == True, in index order
RECURSIVE SignalRows(_, _)
SignalRows(frame, b) ==
    IF b >= len THEN << >>
    ELSE (IF frame["Buy_Signal"][b] = TRUE THEN <<b>> ELSE << >>)
         \o SignalRows(frame, b + 1)

\* lines 481, 485: (exit_price - entry_price) / entry_price * 100
PercentReturn(exit_price, entry_price) ==
    Mul(Div(Sub(exit_price, entry_price), entry_price), Rat(100, 1))

\* the future taken from the signal bar itself (data.loc[i:] without .iloc[1:])
FutureFromSignalBar(s) == s

\* line 455: data.loc[i:].iloc[1:], the position of its first bar
FutureStart(s) == s + 1

\* lines 417-440
BacktestStart ==
    /\ pc = "backtest"
    /\ IF len = 0 \/ "Buy_Signal" \notin Columns
       THEN /\ results' = NoneValue
            /\ pc' = "ret_backtest"
            /\ UNCHANGED <<buy_signals, k>>
       ELSE LET rows == SignalRows(df, 0)
            IN  IF rows = << >>
                THEN /\ results' = EmptyResults
                     /\ pc' = "ret_backtest"
                     /\ UNCHANGED <<buy_signals, k>>
                ELSE /\ results' = [EmptyResults EXCEPT !.total_signals = Len(rows)]
                     /\ buy_signals' = rows
                     /\ k' = 1
                     /\ pc' = "bt_signal"
    /\ UNCHANGED <<len, df, ema, bad, ema_short, ema_medium, ema_long, i,
                   trade, trades>>

\* lines 443-463: the next signal row; the loop ends when the rows are exhausted
BacktestSignal ==
    /\ pc = "bt_signal"
    /\ IF k > Len(buy_signals)
       THEN /\ pc' = "ret_backtest"
            /\ UNCHANGED <<k, trade, trades>>
       ELSE LET s == buy_signals[k]
                entry_price == safe_float(df["Close"][s])
                skipped == [s |-> s, outcome |-> "skipped", exit_price |-> entry_price]
            IN  IF IsNaN(df["Stop_Loss"][s]) \/ IsNaN(df["Take_Profit"][s])
                THEN /\ k' = k + 1                          \* line 449
                     /\ trades' = Append(trades, skipped)
                     /\ UNCHANGED <<pc, trade>>
                ELSE IF FutureStart(s) >= len
                THEN /\ k' = k + 1                          \* line 458
                     /\ trades' = Append(trades, skipped)
                     /\ UNCHANGED <<pc, trade>>
                ELSE /\ trade' = [s |-> s,
                                  entry_price |-> entry_price,
                                  stop_loss |-> df["Stop_Loss"][s],
                                  take_profit |-> df["Take_Profit"][s],
                                  j |-> FutureStart(s),
                                  reached_stop_loss |-> FALSE,
                                  reached_take_profit |-> FALSE,
                                  exit_price |-> entry_price]
                     /\ pc' = "bt_scan"
                     /\ UNCHANGED <<k, trades>>
    /\ UNCHANGED <<len, df, ema, bad, ema_short, ema_medium, ema_long, i,
                   results, buy_signals>>

\* the target reached only when High exceeds it
HitsTakeProfitStrict(bar, take_profit) == Lt(take_profit, safe_float(df["High"][bar]))

\* line 467
HitsStopLoss(bar, stop_loss) == Le(safe_float(df["Low"][bar]), stop_loss)
\* line 473
HitsTakeProfit(bar, take_profit) == Le(take_profit, safe_float(df["High"][bar]))

\* one bar of future_data with the two tests in the other order
BacktestScanTargetFirst ==
    /\ pc = "bt_scan"
    /\ IF trade.j >= len
       THEN /\ pc' = "bt_record"
            /\ trade' = trade
       ELSE IF Le(trade.take_profit, safe_float(df["High"][trade.j]))
       THEN /\ trade' = [trade EXCEPT !.reached_take_profit = TRUE,
                                      !.exit_price = trade.take_profit]
            /\ pc' = "bt_record"
       ELSE IF Le(safe_float(df["Low"][trade.j]), trade.stop_loss)
       THEN /\ trade' = [trade EXCEPT !.reached_stop_loss = TRUE,
                                      !.exit_price = trade.stop_loss]
            /\ pc' = "bt_record"
       ELSE /\ trade' = [trade EXCEPT !.j = trade.j + 1]
            /\ pc' = pc
    /\ UNCHANGED <<len, df, ema, bad, ema_short, ema_medium, ema_long, i,
                   results, buy_signals, k, trades>>

\* lines 465-476: one bar of future_data
BacktestScan ==
    /\ pc = "bt_scan"
    /\ IF trade.j >= len
       THEN /\ pc' = "bt_record"
            /\ trade' = trade
       ELSE IF HitsStopLoss(trade.j, trade.stop_loss)
       THEN /\ trade' = [trade EXCEPT !.reached_stop_loss = TRUE,
                                      !.exit_price = trade.stop_loss]
            /\ pc' = "bt_record"
       ELSE IF HitsTakeProfit(trade.j, trade.take_profit)
       THEN /\ trade' = [trade EXCEPT !.reached_take_profit = TRUE,
                                      !.exit_price = trade.take_profit]
            /\ pc' = "bt_record"
       ELSE /\ trade' = [trade EXCEPT !.j = trade.j + 1]
            /\ pc' = pc
    /\ UNCHANGED <<len, df, ema, bad, ema_short, ema_medium, ema_long, i,
                   results, buy_signals, k, trades>>

\* the outcome of an iteration, from its flags (lines 479, 483)
Outcome(t) ==
    IF t.reached_take_profit THEN "win"
    ELSE IF t.reached_stop_loss THEN "loss"
    ELSE "unresolved"

\* lines 479-486: wins/losses and the running sums, each kept as the sequence of
\* its terms
BacktestRecord ==
    /\ pc = "bt_record"
    /\ LET pct == PercentReturn(trade.exit_price, trade.entry_price)
       IN  results' =
             IF trade.reached_take_profit
             THEN [results EXCEPT !.wins = @ + 1, !.avg_profit = Append(@, pct)]
             ELSE IF trade.reached_stop_loss
             THEN [results EXCEPT !.losses = @ + 1, !.avg_loss = Append(@, pct)]
             ELSE results
    /\ trades' = Append(trades, [s |-> trade.s, outcome |-> Outcome(trade),
                                 exit_price |-> trade.exit_price])
    /\ trade' = NoTrade
    /\ k' = k + 1
    /\ pc' = "bt_signal"
    /\ UNCHANGED <<len, df, ema, bad, ema_short, ema_medium, ema_long, i,
                   buy_signals>>

(* ------------------------------ inputs -------------------------------- *)
Prices == 0 .. MaxPrice
Lengths == 1 .. MaxBars
PriceColumn(n) == [0 .. (n - 1) -> Prices]
Flat(n, v) == [b \in 0 .. (n - 1) |-> v]

\* A bar series for calculate_fractals: High >= Low at every bar, one of the two
\* columns free and the other flat at its extreme value.
InitFractals ==
    /\ len \in Lengths
    /\ \E col \in PriceColumn(len) :
          \/ df = [c \in {"High", "Low"} |->
                      IF c = "High" THEN col ELSE Flat(len, 0)]
          \/ df = [c \in {"High", "Low"} |->
                      IF c = "Low" THEN col ELSE Flat(len, MaxPrice)]
    /\ ema = << >>
    /\ bad = {}
    /\ ema_short = 0 /\ ema_medium = 0 /\ ema_long = 0
    /\ pc = "fractals"
    /\ i = 0
    /\ results = NoneValue
    /\ buy_signals = << >>
    /\ k = 0
    /\ trade = NoTrade
    /\ trades = << >>

\* A series annotated for calculate_signals: Close, the three EMA columns and
\* Fractal_Buy, every cell free except the two no line reads (Fractal_Buy[0] and
\* the long EMA of the last bar).  The spans only name the columns here.
SigLevels == 0 .. MaxSigPrice
SigColumn(n) == [0 .. (n - 1) -> SigLevels]
\* the long EMA stays below the top level: alignment needs it strictly below the
\* medium EMA, and the levels kept give every order of the two (<, =, >)
LongLevels == 0 .. (MaxSigPrice - 1)
AsReals(col) == [b \in DOMAIN col |-> safe_float(col[b])]
InitSignals ==
    /\ len \in 1 .. MaxSigBars
    /\ ema_short = 3 /\ ema_medium = 2 /\ ema_long = 1
    /\ \E close \in SigColumn(len), es \in SigColumn(len), em \in SigColumn(len),
          el \in {c \in [0 .. (len - 1) -> LongLevels] : c[len - 1] = 0},
          fb \in {c \in [0 .. (len - 1) -> BOOLEAN] : c[0] = FALSE} :
          /\ df = [c \in {"Close", "Fractal_Buy"} |->
                      IF c = "Close" THEN close ELSE fb]
          /\ ema = [s \in {1, 2, 3} |->
                      IF s = 3 THEN AsReals(es)
                      ELSE IF s = 2 THEN AsReals(em) ELSE AsReals(el)]
    /\ bad = {}
    /\ pc = "signals"
    /\ i = 0
    /\ results = NoneValue
    /\ buy_signals = << >>
    /\ k = 0
    /\ trade = NoTrade
    /\ trades = << >>

NextSignals == SignalsStart \/ SignalStep

\* An annotated series one cell of which cannot be converted (safe_float or bool
\* raises on it): Close and the short and medium EMA free, the long EMA flat at 0
\* and Fractal_Buy true at every bar.
UnreadableCells(n) ==
    {Cell("EMA", s, b) : s \in {1, 2, 3}, b \in 0 .. (n - 1)}
    \cup {Cell(c, 0, b) : c \in {"Close", "Fractal_Buy"}, b \in 0 .. (n - 1)}
InitFault ==
    /\ len \in 2 .. MaxSigBars
    /\ ema_short = 3 /\ ema_medium = 2 /\ ema_long = 1
    /\ \E close \in SigColumn(len), es \in SigColumn(len), em \in SigColumn(len) :
          /\ df = [c \in {"Close", "Fractal_Buy"} |->
                      IF c = "Close" THEN close ELSE Flat(len, TRUE)]
          /\ ema = [s \in {1, 2, 3} |->
                      IF s = 3 THEN AsReals(es)
                      ELSE IF s = 2 THEN AsReals(em) ELSE AsReals(Flat(len, 0))]
    /\ \E c \in UnreadableCells(len) : bad = {c}
    /\ pc = "signals"
    /\ i = 0
    /\ results = NoneValue
    /\ buy_signals = << >>
    /\ k = 0
    /\ trade = NoTrade
    /\ trades = << >>

SpecFault == InitFault /\ [][NextSignals]_vars

SpecSignals == InitSignals /\ [][NextSignals]_vars

\* A series for calculate_backtest_results: bars with 1 <= Low <= High closing on
\* their High, any set of signal bars, and one pair of levels carried by every
\* signal bar (a stop below the top price or NaN, a target above 0 or NaN); the
\* other bars carry NaN.
BtPrices == 1 .. MaxBtPrice
BtStops == {NaN} \cup {safe_float(p) : p \in 0 .. (MaxBtPrice - 1)}
BtTargets == {NaN} \cup {safe_float(p) : p \in BtPrices}
InitBacktest ==
    /\ len \in 1 .. MaxBtBars
    /\ \E high \in [0 .. (len - 1) -> BtPrices], low \in [0 .. (len - 1) -> BtPrices],
          buy \in [0 .. (len - 1) -> BOOLEAN], sl \in BtStops, tp \in BtTargets :
          /\ \A b \in 0 .. (len - 1) : low[b] <= high[b]
          /\ df = [c \in {"High", "Low", "Close", "Buy_Signal", "Stop_Loss",
                           "Take_Profit"} |->
                      CASE c = "High" -> high
                        [] c = "Low" -> low
                        [] c = "Close" -> high
                        [] c = "Buy_Signal" -> buy
                        [] c = "Stop_Loss" ->
                             [b \in 0 .. (len - 1) |-> IF buy[b] THEN sl ELSE NaN]
                        [] c = "Take_Profit" ->
                             [b \in 0 .. (len - 1) |-> IF buy[b] THEN tp ELSE NaN]]
    /\ ema = << >>
    /\ bad = {}
    /\ ema_short = 0 /\ ema_medium = 0 /\ ema_long = 0
    /\ pc = "backtest"
    /\ i = 0
    /\ results = NoneValue
    /\ buy_signals = << >>
    /\ k = 0
    /\ trade = NoTrade
    /\ trades = << >>

NextBacktest == BacktestStart \/ BacktestSignal \/ BacktestScan \/ BacktestRecord

SpecBacktest == InitBacktest /\ [][NextBacktest]_vars

\* A bar series for the whole pipeline: any Close column, Low = Close, High =
\* Close except for at most one bar standing one tick above its Close, and any
\* three spans with ema_short <= ema_medium <= ema_long.
PipeSpans == 2 .. MaxSpan
InitPipeline ==
    /\ len \in 1 .. MaxPipeBars
    /\ ema_short \in PipeSpans /\ ema_medium \in PipeSpans /\ ema_long \in PipeSpans
    /\ ema_short <= ema_medium /\ ema_medium <= ema_long
    /\ \E close \in [0 .. (len - 1) -> 0 .. MaxPipePrice], spike \in -1 .. (len - 1) :
          df = [c \in {"High", "Low", "Close"} |->
                   IF c = "High"
                   THEN [b \in 0 .. (len - 1) |-> close[b] + (IF b = spike THEN 1 ELSE 0)]
                   ELSE close]
    /\ ema = << >>
    /\ bad = {}
    /\ pc = "analyze"
    /\ i = 0
    /\ results = NoneValue
    /\ buy_signals = << >>
    /\ k = 0
    /\ trade = NoTrade
    /\ trades = << >>

NextPipeline ==
    \/ AnalyzeStockEMA
    \/ FractalsStart \/ FractalBuyStep \/ FractalSellStep
    \/ AnalyzeStockSignals
    \/ SignalsStart \/ SignalStep
    \/ CallBacktest
    \/ BacktestStart \/ BacktestSignal \/ BacktestScan \/ BacktestRecord

SpecPipeline == InitPipeline /\ [][NextPipeline]_vars

NextFractals == FractalsStart \/ FractalBuyStep \/ FractalSellStep

SpecFractals == InitFractals /\ [][NextFractals]_vars

(* ======================= properties of the signals ==================== *)
SignalsReturned == pc = "ret_signals" /\ "Buy_Signal" \in Columns
EmaShort(b) == ema[ema_short][b]
EmaMedium(b) == ema[ema_medium][b]
EmaLong(b) == ema[ema_long][b]
CloseAt(b) == [n |-> df["Close"][b], d |-> 1]

Aligned(b) == Lt(EmaMedium(b - 1), EmaShort(b - 1)) /\ Lt(EmaLong(b - 1), EmaMedium(b - 1))
Crossover(b) == Lt(CloseAt(b - 1), EmaShort(b - 1)) /\ Lt(EmaShort(b), CloseAt(b))
FractalGate(b) == df["Fractal_Buy"][b] = TRUE

IsStopLossOf(x, b) == ~IsNaN(x) /\ x.n * 100 * EmaMedium(b).d = 99 * EmaMedium(b).n * x.d
IsTakeProfitOf(y, x, b) ==
    ~IsNaN(y) /\ 2 * y.n * x.d = (5 * df["Close"][b] * x.d - 3 * x.n) * y.d
RiskNotPositive(b) == 100 * df["Close"][b] * EmaMedium(b).d <= 99 * EmaMedium(b).n

\* C6: at every bar with Buy_Signal set, Stop_Loss is 0.99 of that bar's medium
\* EMA and Take_Profit is Close + 1.5 * (Close - Stop_Loss) of that bar; a bar
\* meeting the three conditions is a signal even when Close - Stop_Loss <= 0; and
\* both levels are NaN wherever Buy_Signal is false.
C6_Levels ==
    SignalsReturned =>
        \A b \in Bars :
            /\ df["Buy_Signal"][b] =>
                  /\ IsStopLossOf(df["Stop_Loss"][b], b)
                  /\ IsTakeProfitOf(df["Take_Profit"][b], df["Stop_Loss"][b], b)
            /\ ~df["Buy_Signal"][b] =>
                  IsNaN(df["Stop_Loss"][b]) /\ IsNaN(df["Take_Profit"][b])
            /\ (b >= 1 /\ Aligned(b) /\ Crossover(b) /\ FractalGate(b)
                 /\ RiskNotPositive(b)) => df["Buy_Signal"][b]

\* a returned series holding a signal with risk <= 0 whose medium EMA differs
\* from the bar before, and a bar without a signal
C6_Witness ==
    /\ SignalsReturned
    /\ \E b \in Bars : /\ df["Buy_Signal"][b] /\ RiskNotPositive(b)
                       /\ EmaMedium(b) # EmaMedium(b - 1)
    /\ \E b \in Bars : ~df["Buy_Signal"][b]

\* the loop body of bar b raises: on a cell it converts before writing, or on the
\* medium EMA of bar b once the three conditions hold
BodyRaises(b) ==
    \/ \E c \in CellsReadFirst(b) : Raises(c)
    \/ BuyCondition(b) /\ Raises(Cell("EMA", ema_medium, b))

\* C9: when the loop body of bar b raises, bar b keeps Buy_Signal false and NaN
\* levels, every other bar carries what the three conditions give it, and the
\* pass runs to the last bar.
C9_FailedBarKeepsDefaults ==
    SignalsReturned =>
        \A b \in Bars \ {0} :
            IF BodyRaises(b)
            THEN /\ ~df["Buy_Signal"][b]
                 /\ IsNaN(df["Stop_Loss"][b]) /\ IsNaN(df["Take_Profit"][b])
            ELSE /\ df["Buy_Signal"][b] = (Aligned(b) /\ Crossover(b) /\ FractalGate(b))
                 /\ df["Buy_Signal"][b] =>
                       /\ IsStopLossOf(df["Stop_Loss"][b], b)
                       /\ IsTakeProfitOf(df["Take_Profit"][b], df["Stop_Loss"][b], b)
                 /\ ~df["Buy_Signal"][b] =>
                       IsNaN(df["Stop_Loss"][b]) /\ IsNaN(df["Take_Profit"][b])

(* ======================= properties of the fractals =================== *)
FractalsReturned == pc = "ret_fractals"
HasFractalColumns == "Fractal_Buy" \in Columns /\ "Fractal_Sell" \in Columns
High(b) == df["High"][b]
Low(b) == df["Low"][b]
Neighbours(b) == {b - 2, b - 1, b + 1, b + 2}
StrictlyMonotonic(col) ==
    \/ \A b \in Bars \ {0} : col[b - 1] < col[b]
    \/ \A b \in Bars \ {0} : col[b - 1] > col[b]

\* C2: once calculate_fractals has returned its flags, at every bar b of
\* 2..len-3 Fractal_Buy[b] holds exactly when High[b] is strictly above the High
\* of its four neighbours and Fractal_Sell[b] exactly when Low[b] is strictly
\* below the Low of its four neighbours; a strictly monotonic High (Low) column
\* carries no Fractal_Buy (Fractal_Sell) flag at any bar.
C2_FractalIff ==
    (FractalsReturned /\ HasFractalColumns) =>
        /\ \A b \in 2 .. (len - 3) :
              /\ df["Fractal_Buy"][b] = (\A nb \in Neighbours(b) : High(b) > High(nb))
              /\ df["Fractal_Sell"][b] = (\A nb \in Neighbours(b) : Low(b) < Low(nb))
        /\ StrictlyMonotonic(df["High"]) => \A b \in Bars : ~df["Fractal_Buy"][b]
        /\ StrictlyMonotonic(df["Low"]) => \A b \in Bars : ~df["Fractal_Sell"][b]

\* a returned series with a bar of the range whose High ties with the bar after
\* it and is above the other three
C2_Witness ==
    /\ FractalsReturned /\ HasFractalColumns
    /\ \E b \in 2 .. (len - 3) :
          /\ High(b) = High(b + 1)
          /\ \A nb \in Neighbours(b) \ {b + 1} : High(b) > High(nb)
          /\ ~df["Fractal_Buy"][b]

\* C7: a series of at least 4 bars comes back from calculate_fractals with the
\* columns Fractal_Buy and Fractal_Sell, false at bars 0, 1, len-2 and len-1.
C7_EdgeFlags ==
    (FractalsReturned /\ len >= 4) =>
        /\ HasFractalColumns
        /\ \A b \in {0, 1, len - 2, len - 1} :
              ~df["Fractal_Buy"][b] /\ ~df["Fractal_Sell"][b]

(* ======================= properties of the backtest =================== *)
BacktestReturned == pc = "ret_backtest"
SL(s) == df["Stop_Loss"][s]
TP(s) == df["Take_Profit"][s]
LevelsDefined(s) == ~IsNaN(SL(s)) /\ ~IsNaN(TP(s))
\* bar t touches the stop (the target) of the signal at bar s
TouchesStop(s, t) == df["Low"][t] * SL(s).d <= SL(s).n
TouchesTarget(s, t) == df["High"][t] * TP(s).d >= TP(s).n
Later(s) == (s + 1) .. (len - 1)
\* some later bar reaches the target with no stop touched after s up to that bar
TargetFirst(s) ==
    \E t \in Later(s) :
        TouchesTarget(s, t) /\ \A u \in (s + 1) .. t : ~TouchesStop(s, u)
\* the first later bar touching a level touches both
BothOnFirstTouch(s) ==
    \E t \in Later(s) :
        /\ TouchesStop(s, t) /\ TouchesTarget(s, t)
        /\ \A u \in (s + 1) .. (t - 1) : ~TouchesStop(s, u) /\ ~TouchesTarget(s, u)
NeverTouched(s) ==
    \A t \in Later(s) : ~TouchesStop(s, t) /\ ~TouchesTarget(s, t)
Count(outcomes) == Cardinality({n \in DOMAIN trades : trades[n].outcome \in outcomes})

\* C3: a signal with defined levels for which a later bar reaches High >=
\* take_profit before any bar after the signal has Low <= stop_loss ends as a win
\* with exit_price equal to its take_profit, whatever the signal bar itself and
\* the bars after the winning one hold; wins counts exactly the signals that
\* ended so, and losses none of them.
C3_WinOnTargetFirst ==
    /\ \A n \in DOMAIN trades :
          (LevelsDefined(trades[n].s) /\ TargetFirst(trades[n].s)) =>
              /\ trades[n].outcome = "win"
              /\ trades[n].exit_price = TP(trades[n].s)
    /\ results # NoneValue =>
          /\ results.wins = Count({"win"})
          /\ results.losses = Count({"loss"})

\* a win although the signal bar itself touches the stop and a bar after the
\* winning one touches it too
C3_Witness ==
    /\ BacktestReturned
    /\ \E n \in DOMAIN trades :
          LET s == trades[n].s
          IN  /\ trades[n].outcome = "win"
              /\ trades[n].exit_price = TP(s)
              /\ TouchesStop(s, s)
              /\ \E t \in Later(s) :
                    /\ TouchesTarget(s, t)
                    /\ \E u \in Later(t) : TouchesStop(s, u)

\* C4: a signal with defined levels whose first later bar touching a level has
\* both Low <= stop_loss and High >= take_profit ends as a loss with exit_price
\* equal to its stop_loss.
C4_StopLossFirst ==
    \A n \in DOMAIN trades :
        (LevelsDefined(trades[n].s) /\ BothOnFirstTouch(trades[n].s)) =>
            /\ trades[n].outcome = "loss"
            /\ trades[n].exit_price = SL(trades[n].s)

\* a loss decided by a bar touching both levels of a signal whose stop is below
\* its target
C4_Witness ==
    /\ BacktestReturned
    /\ \E n \in DOMAIN trades :
          LET s == trades[n].s
          IN  /\ trades[n].outcome = "loss"
              /\ trades[n].exit_price = SL(s)
              /\ LevelsDefined(s) /\ BothOnFirstTouch(s)
              /\ Lt(SL(s), TP(s))

\* C5: a signal no later bar of which touches either level is neither a win nor
\* a loss; and once the signal rows are exhausted total_signals is the number of
\* bars with Buy_Signal true, wins + losses <= total_signals with the difference
\* the number of unresolved or skipped signals, and the profit and loss sums
\* hold one term per win and one per loss.
C5_Unresolved ==
    /\ \A n \in DOMAIN trades :
          NeverTouched(trades[n].s) => trades[n].outcome \in {"unresolved", "skipped"}
    /\ (BacktestReturned /\ results # NoneValue) =>
          /\ results.total_signals = Cardinality({b \in Bars : df["Buy_Signal"][b]})
          /\ results.wins + results.losses <= results.total_signals
          /\ results.total_signals - (results.wins + results.losses)
                = Count({"unresolved", "skipped"})
          /\ Len(results.avg_profit) = results.wins
          /\ Len(results.avg_loss) = results.losses

\* a finished run with a win, a signal scanned to the end of the series without
\* a touch, and a signal on the last bar
C5_Witness ==
    /\ BacktestReturned
    /\ results # NoneValue
    /\ results.wins >= 1
    /\ \E n \in DOMAIN trades :
          /\ trades[n].outcome = "unresolved"
          /\ trades[n].s + 1 < len
    /\ \E n \in DOMAIN trades : trades[n].outcome = "skipped"

(* ======================= properties of the pipeline =================== *)
PipelineReturned == pc = "ret_backtest"
HasSignal == "Buy_Signal" \in Columns /\ \E b \in Bars : df["Buy_Signal"][b]
SixColumns ==
    {"Fractal_Buy", "Fractal_Sell", "Buy_Signal", "Sell_Signal", "Stop_Loss",
     "Take_Profit"}
ResultFields ==
    {"total_signals", "wins", "losses", "win_rate", "avg_profit", "avg_loss",
     "profit_factor", "total_return"}

\* C8: whatever the length of the series, the pipeline ends with the six columns
\* in the frame, Sell_Signal false at every bar, and a result record of the eight
\* fields, all zero when no bar is a signal.
C8_PipelineDegradesGracefully ==
    PipelineReturned =>
        /\ SixColumns \subseteq Columns
        /\ \A b \in Bars : ~df["Sell_Signal"][b]
        /\ results # NoneValue
        /\ DOMAIN results = ResultFields
        /\ ~HasSignal => results = EmptyResults

\* C10: with the EMA columns analyze_stock computes (spans >= 2) over Close >= 0,
\* every signal bar has EMA_medium < Close and Stop_Loss < Close < Take_Profit,
\* and no bar is a signal when ema_short = ema_medium or ema_medium = ema_long.
C10_PipelineRiskPositive ==
    "Buy_Signal" \in Columns =>
        /\ \A b \in Bars :
              df["Buy_Signal"][b] =>
                  /\ Lt(EmaMedium(b), CloseAt(b))
                  /\ ~IsNaN(df["Stop_Loss"][b]) /\ ~IsNaN(df["Take_Profit"][b])
                  /\ Lt(df["Stop_Loss"][b], CloseAt(b))
                  /\ Lt(CloseAt(b), df["Take_Profit"][b])
        /\ (ema_short = ema_medium \/ ema_medium = ema_long) =>
              \A b \in Bars : ~df["Buy_Signal"][b]

\* the pipeline has emitted a signal and the backtest has scanned it to a loss
C10_Witness ==
    /\ PipelineReturned
    /\ HasSignal
    /\ results.losses >= 1

====
